---- MODULE Spec2Model ----
(***************************************************************************)
(* Weighted aggregation and derived-variable layer of the ECP 2019 / 2023  *)
(* comparison app (src/src/app.py).                                        *)
(*                                                                         *)
(* A table (pandas DataFrame) is [columns, rows]: columns is the ordered   *)
(* sequence of column names, rows a sequence of records over them.         *)
(* WEIGHT holds a defined, non-negative number.  Every other cell is a     *)
(* set: {} is a missing value (NaN) and {v} the value v, so the pandas     *)
(* comparison  df[var] == x  is  cell = {x}  and is false on NaN.          *)
(* Numeric cell values are decimals held as integer multiples of 1/10000   *)
(* (D(3, 5000) is 3.5).  Floats computed by the code are exact rationals   *)
(* [k, n, d] in lowest terms, or NaN.                                      *)
(***************************************************************************)
EXTENDS Integers, Sequences, FiniteSets, TLC

VARIABLES df, res

vars == <<df, res>>

(* ------------------------------ bounds -------------------------------- *)
MaxRows == 2
MaxIdeoRows == 1
MaxWeight == 2
MaxApply == 2

(* ---------------------------- arithmetic ------------------------------ *)
D(i, f) == i * 10000 + f

Abs(x) == IF x < 0 THEN -x ELSE x

RECURSIVE Gcd(_, _)
Gcd(a, b) == IF b = 0 THEN a ELSE Gcd(b, a % b)

NaN == [k |-> "nan", n |-> 0, d |-> 1]

Float(n, d) ==
    LET g == Gcd(Abs(n), Abs(d))
        s == IF d < 0 THEN -1 ELSE 1
    IN [k |-> "num", n |-> (s * n) \div g, d |-> (s * d) \div g]

Zero == Float(0, 1)

\* numpy / pandas float division: 0/0 is NaN, never an exception
Div(n, d) == IF d = 0 THEN NaN ELSE Float(n, d)

RECURSIVE Sum(_)
Sum(s) == IF s = <<>> THEN 0 ELSE Head(s) + Sum(Tail(s))

RECURSIVE SortSet(_)
SortSet(S) ==
    IF S = {} THEN <<>>
    ELSE LET m == CHOOSE x \in S : \A y \in S : x <= y
         IN <<m>> \o SortSet(S \ {m})

(* ------------------------- DataFrame helpers -------------------------- *)
HasColumn(d, var) == \E i \in 1..Len(d.columns) : d.columns[i] = var

ColumnSet(d) == {d.columns[i] : i \in 1..Len(d.columns)}

\* df[var]: the column as a series, one cell per row
Col(d, var) == [i \in 1..Len(d.rows) |-> d.rows[i][var]]

\* series == x: a boolean mask, False on NaN
Eq(series, x) == [i \in DOMAIN series |-> series[i] = {x}]

\* series.between(lo, hi): inclusive on both sides, False on NaN
between(series, lo, hi) ==
    [i \in DOMAIN series |-> \E v \in series[i] : lo <= v /\ v <= hi]

\* df.loc[mask, "WEIGHT"].sum()
WeightWhere(d, mask) ==
    Sum([i \in 1..Len(d.rows) |-> IF mask[i] THEN d.rows[i].WEIGHT ELSE 0])

\* df["WEIGHT"].sum()
TotalWeight(d) == Sum([i \in 1..Len(d.rows) |-> d.rows[i].WEIGHT])

\* df[name] = column (one cell per row): replaces the column or appends it
SetColumn(d, name, series) ==
    [columns |-> IF HasColumn(d, name) THEN d.columns ELSE Append(d.columns, name),
     rows    |-> [i \in 1..Len(d.rows) |->
                    [c \in ColumnSet(d) \cup {name} |->
                        IF c = name THEN series[i] ELSE d.rows[i][c]]]]

(* --------------------------- configuration ---------------------------- *)
global_participacion == [c \in {D(1, 0), D(2, 0), D(99, 0)} |->
    IF c = D(1, 0) THEN "Si voto" ELSE IF c = D(2, 0) THEN "No voto" ELSE "NS/NR"]

group_to_codes == <<
    [cat |-> "Animadversion politica",
     codes |-> <<"P5336S6", "P5336S7", "P5336S8", "P5336S10", "P5336S19", "P5336S11">>],
    [cat |-> "Dificultad logistica",
     codes |-> <<"P5336S14", "P5336S15", "P5336S17", "P5336S13">>],
    [cat |-> "Menor o Cedula",
     codes |-> <<"P5336S1", "P5336S2">>],
    [cat |-> "Otra",
     codes |-> <<"P5336S12">>] >>

\* Sidebar buttons: the keys of nav_items
nav_items == {"Introduccion", "Datos faltantes", "Participacion politica",
              "Relevancia electoral", "Ubicacion ideologica"}

importance_vars == <<"P5321S1", "P5321S2", "P5321S3", "P5321S4", "P5321S5",
                     "P5321S6", "P5321S7", "P5321S8", "P5321S9">>

labels_id == [c \in {D(1, 0), D(2, 0), D(99, 0)} |->
    IF c = D(1, 0) THEN "Si" ELSE IF c = D(2, 0) THEN "No" ELSE "NS/NR"]

(* ----------------------- aggregation functions ------------------------ *)
\* Variant: the denominator counts only the records that answered the question
porcentaje_ponderado_answered(d, var, valor_si) ==
    IF ~HasColumn(d, var) THEN Zero
    ELSE LET yes_weight   == WeightWhere(d, Eq(Col(d, var), valor_si))
             total_weight == WeightWhere(d, [i \in 1..Len(d.rows) |-> d.rows[i][var] # {}])
         IN IF total_weight # 0 THEN Float(100 * yes_weight, total_weight) ELSE Zero

\* Variant: the denominator is the number of records, not their weight
porcentaje_ponderado_count(d, var, valor_si) ==
    IF ~HasColumn(d, var) THEN Zero
    ELSE LET yes_weight   == WeightWhere(d, Eq(Col(d, var), valor_si))
             total_weight == Len(d.rows)
         IN IF total_weight # 0 THEN Float(100 * yes_weight, total_weight) ELSE Zero

porcentaje_ponderado(d, var, valor_si) ==
    IF ~HasColumn(d, var) THEN Zero
    ELSE LET yes_weight   == WeightWhere(d, Eq(Col(d, var), valor_si))
             total_weight == TotalWeight(d)
         IN IF total_weight # 0 THEN Float(100 * yes_weight, total_weight) ELSE Zero

\* Variant: no column check, df[var] raises KeyError for an absent column
weighted_mean_unguarded(d, var) ==
    IF ~HasColumn(d, var) THEN [k |-> "KeyError", n |-> 0, d |-> 1]
    ELSE LET mask == between(Col(d, var), D(1, 0), D(5, 0))
             w == WeightWhere(d, mask)
             s == Sum([i \in 1..Len(d.rows) |->
                         IF mask[i]
                         THEN (CHOOSE v \in d.rows[i][var] : TRUE) * d.rows[i].WEIGHT
                         ELSE 0])
         IN IF w = 0 THEN Zero ELSE Float(s, D(1, 0) * w)

\* Variant: the valid values are averaged over the weight of the whole table
weighted_mean_allweight(d, var) ==
    IF ~HasColumn(d, var) THEN Zero
    ELSE LET mask == between(Col(d, var), D(1, 0), D(5, 0))
             w == TotalWeight(d)
             s == Sum([i \in 1..Len(d.rows) |->
                         IF mask[i]
                         THEN (CHOOSE v \in d.rows[i][var] : TRUE) * d.rows[i].WEIGHT
                         ELSE 0])
         IN IF w = 0 THEN Zero ELSE Float(s, D(1, 0) * w)

weighted_mean(d, var) ==
    IF ~HasColumn(d, var) THEN Zero
    ELSE LET mask == between(Col(d, var), D(1, 0), D(5, 0))
             w == WeightWhere(d, mask)
             s == Sum([i \in 1..Len(d.rows) |->
                         IF mask[i]
                         THEN (CHOOSE v \in d.rows[i][var] : TRUE) * d.rows[i].WEIGHT
                         ELSE 0])
         IN IF w = 0 THEN Zero ELSE Float(s, D(1, 0) * w)

\* Series * 100 on a float that may be NaN
Times100(x) == IF x.k = "nan" THEN NaN ELSE Float(100 * x.n, x.d)

\* Variant: the rows whose code has no label are dropped after the mapping
plot_weighted_bar_dropna(d, var, labels) ==
    IF ~HasColumn(d, var) THEN [raised |-> "KeyError", perc_df |-> <<>>]
    ELSE LET codes   == SortSet(UNION {d.rows[i][var] : i \in 1..Len(d.rows)})
             weights == [j \in 1..Len(codes) |->
                            WeightWhere(d, Eq(Col(d, var), codes[j]))]
             total   == Sum(weights)
             Labeled(row) == row.label # {}
         IN [raised  |-> "",
             perc_df |-> SelectSeq(
                            [j \in 1..Len(codes) |->
                               [label   |-> IF codes[j] \in DOMAIN labels
                                            THEN {labels[codes[j]]} ELSE {},
                                percent |-> Times100(Div(weights[j], total))]],
                            Labeled)]

\* Variant: the group weights are divided by df["WEIGHT"].sum()
plot_weighted_bar_wholetable(d, var, labels) ==
    IF ~HasColumn(d, var) THEN [raised |-> "KeyError", perc_df |-> <<>>]
    ELSE LET codes   == SortSet(UNION {d.rows[i][var] : i \in 1..Len(d.rows)})
             weights == [j \in 1..Len(codes) |->
                            WeightWhere(d, Eq(Col(d, var), codes[j]))]
             total   == TotalWeight(d)
         IN [raised  |-> "",
             perc_df |-> [j \in 1..Len(codes) |->
                            [label   |-> IF codes[j] \in DOMAIN labels
                                         THEN {labels[codes[j]]} ELSE {},
                             percent |-> Times100(Div(weights[j], total))]]]

\* The data frame perc_df behind the bar chart; a missing column raises KeyError
plot_weighted_bar(d, var, labels) ==
    IF ~HasColumn(d, var) THEN [raised |-> "KeyError", perc_df |-> <<>>]
    ELSE LET \* groupby(var): one group per distinct non-missing value, sorted
             codes   == SortSet(UNION {d.rows[i][var] : i \in 1..Len(d.rows)})
             weights == [j \in 1..Len(codes) |->
                            WeightWhere(d, Eq(Col(d, var), codes[j]))]
             total   == Sum(weights)
         IN [raised  |-> "",
             perc_df |-> [j \in 1..Len(codes) |->
                            [label   |-> IF codes[j] \in DOMAIN labels
                                         THEN {labels[codes[j]]} ELSE {},
                             percent |-> Times100(Div(weights[j], total))]]]

\* Variant: like plot_reasons, a group is listed only when the table has one
\* of its member columns
plot_grouped_reasons_listed(d, group_map) ==
    LET total == TotalWeight(d)
        Listed(grp) == \E j \in 1..Len(grp.codes) : HasColumn(d, grp.codes[j])
        groups == SelectSeq(group_map, Listed)
    IN [g \in 1..Len(groups) |->
          LET codes == groups[g].codes
              w == Sum([j \in 1..Len(codes) |->
                          IF HasColumn(d, codes[j])
                          THEN WeightWhere(d, Eq(Col(d, codes[j]), D(1, 0)))
                          ELSE 0])
          IN [Categoria |-> groups[g].cat,
              percent   |-> IF total # 0 THEN Float(100 * w, total) ELSE Zero]]

\* The data frame perc_df behind the grouped bar chart
plot_grouped_reasons(d, group_map) ==
    LET total == TotalWeight(d)
    IN [g \in 1..Len(group_map) |->
          LET codes == group_map[g].codes
              w == Sum([j \in 1..Len(codes) |->
                          IF HasColumn(d, codes[j])
                          THEN WeightWhere(d, Eq(Col(d, codes[j]), D(1, 0)))
                          ELSE 0])
          IN [Categoria |-> group_map[g].cat,
              percent   |-> IF total # 0 THEN Float(100 * w, total) ELSE Zero]]

(* ---------------------- derived variable transform -------------------- *)
\* Variant: pd.cut(..., right=False), intervals closed on the left
cut_left_closed(series) ==
    [i \in DOMAIN series |->
        IF \E v \in series[i] : 0 <= v /\ v < D(3, 5000) THEN {"Izquierda"}
        ELSE IF \E v \in series[i] : D(3, 5000) <= v /\ v < D(6, 5000) THEN {"Centro"}
        ELSE IF \E v \in series[i] : D(6, 5000) <= v /\ v < D(10, 0) THEN {"Derecha"}
        ELSE {}]

\* Variant: pd.cut(..., include_lowest=True), the first interval takes in 0
cut_include_lowest(series) ==
    [i \in DOMAIN series |->
        IF \E v \in series[i] : 0 <= v /\ v <= D(3, 5000) THEN {"Izquierda"}
        ELSE IF \E v \in series[i] : D(3, 5000) < v /\ v <= D(6, 5000) THEN {"Centro"}
        ELSE IF \E v \in series[i] : D(6, 5000) < v /\ v <= D(10, 0) THEN {"Derecha"}
        ELSE {}]

\* pd.cut(x, bins=[0, 3.5, 6.5, 10], labels=[...]): right-closed intervals
cut(series) ==
    [i \in DOMAIN series |->
        IF \E v \in series[i] : 0 < v /\ v <= D(3, 5000) THEN {"Izquierda"}
        ELSE IF \E v \in series[i] : D(3, 5000) < v /\ v <= D(6, 5000) THEN {"Centro"}
        ELSE IF \E v \in series[i] : D(6, 5000) < v /\ v <= D(10, 0) THEN {"Derecha"}
        ELSE {}]

\* series.where(mask): the value where the mask holds, NaN elsewhere
where(series, mask) == [i \in DOMAIN series |-> IF mask[i] THEN series[i] ELSE {}]

\* Variant: the group is cut from the cleaned score once that column exists
engineer_ideology_from_score(d) ==
    IF HasColumn(d, "P5328")
    THEN LET src  == IF HasColumn(d, "ideology_score") THEN "ideology_score" ELSE "P5328"
             d1   == SetColumn(d, "ideology_group", cut(Col(d, src)))
             mask == between(Col(d1, "P5328"), D(1, 0), D(10, 0))
         IN SetColumn(d1, "ideology_score", where(Col(d1, "P5328"), mask))
    ELSE d

\* Works on df.copy(): the argument is left as it was
engineer_ideology(d) ==
    IF HasColumn(d, "P5328")
    THEN LET d1   == SetColumn(d, "ideology_group", cut(Col(d, "P5328")))
             mask == between(Col(d1, "P5328"), D(1, 0), D(10, 0))
         IN SetColumn(d1, "ideology_score", where(Col(d1, "P5328"), mask))
    ELSE d

\* Variant: no df.copy(), the two columns are assigned on the caller's table
engineer_ideology_arg_inplace(d) ==
    IF HasColumn(d, "P5328")
    THEN LET d1   == SetColumn(d, "ideology_group", cut(Col(d, "P5328")))
             mask == between(Col(d1, "P5328"), D(1, 0), D(10, 0))
         IN SetColumn(d1, "ideology_score", where(Col(d1, "P5328"), mask))
    ELSE d

\* The caller's table once engineer_ideology(d) has returned: the function
\* rebinds its parameter to df.copy() first, so every assignment hits the copy
engineer_ideology_arg(d) == d

(* ------------------------------- views -------------------------------- *)
\* w_mean_1_10 of the view "Ubicacion ideologica": df[var] is read unguarded;
\* None when no placement in [1, 10] carries weight
w_mean_1_10(d, var) ==
    IF ~HasColumn(d, var) THEN [raised |-> "KeyError", value |-> NaN]
    ELSE LET mask == between(Col(d, var), D(1, 0), D(10, 0))
             w == WeightWhere(d, mask)
             s == Sum([i \in 1..Len(d.rows) |->
                         IF mask[i]
                         THEN (CHOOSE v \in d.rows[i][var] : TRUE) * d.rows[i].WEIGHT
                         ELSE 0])
         IN [raised |-> "",
             value  |-> IF w # 0 THEN Float(s, D(1, 0) * w)
                        ELSE [k |-> "None", n |-> 0, d |-> 1]]

\* "Participacion politica": the metric and the tabs 1-4 guard the column
\* (porcentaje_ponderado, plot_grouped_reasons, plot_reasons); tab 0 draws
\* plot_weighted_bar(df, "P6933", ...)
view_participacion(d) == plot_weighted_bar(d, "P6933", global_participacion).raised

\* "Relevancia electoral": tab_media and tab_radar guard the column; tab_likert
\* reads df[var] == lvl for every importance variable; tab_part draws
\* plot_weighted_bar(df, "P5323", ...)
view_relevancia(d) ==
    IF \E j \in 1..Len(importance_vars) : ~HasColumn(d, importance_vars[j])
    THEN "KeyError"
    ELSE plot_weighted_bar(d, "P5323", labels_id).raised

\* "Ubicacion ideologica": w_mean_1_10 comes first; tab_dist and tab_group read
\* the same column
view_ubicacion(d) == w_mean_1_10(d, "P5328").raised

\* What rendering the selected view over the table d ends in: "" when it
\* completes, otherwise the exception that stops the script
render(d, view) ==
    IF view = "Participacion politica" THEN view_participacion(d)
    ELSE IF view = "Relevancia electoral" THEN view_relevancia(d)
    ELSE IF view = "Ubicacion ideologica" THEN view_ubicacion(d)
    ELSE ""

(* ------------------------------ inputs -------------------------------- *)
Weights == 0..MaxWeight

CatCells == {{}, {D(1, 0)}, {D(2, 0)}, {D(5, 0)}, {D(99, 0)}}

IndCells == {{}, {D(1, 0)}}

PlacementCells ==
    {{}} \cup {{v} : v \in {0, D(0, 5000), D(1, 0), D(3, 5000), D(3, 5001), D(6, 5000),
                            D(7, 0), D(10, 0), D(10, 5000), D(11, 0)}}

\* Records of the "Relevancia electoral" block: party identification P5323 and
\* the nine importance items, which carry one and the same answer
ImportanceRows ==
    {[WEIGHT |-> w, P5323 |-> c,
      P5321S1 |-> l, P5321S2 |-> l, P5321S3 |-> l, P5321S4 |-> l, P5321S5 |-> l,
      P5321S6 |-> l, P5321S7 |-> l, P5321S8 |-> l, P5321S9 |-> l] :
        w \in Weights, c \in {{}, {D(1, 0)}}, l \in {{}, {D(3, 0)}}}

TablesOf(cols, RowSet, maxn) ==
    {[columns |-> cols, rows |-> rs] : rs \in UNION {[1..n -> RowSet] : n \in 0..maxn}}

\* Loaded tables: WEIGHT plus the columns of one question block, any of which
\* may be missing from a survey round
Tables ==
    TablesOf(<<"WEIGHT">>, [WEIGHT : Weights], MaxRows)
    \cup TablesOf(<<"WEIGHT", "P6933">>, [WEIGHT : Weights, P6933 : CatCells], MaxRows)
    \cup TablesOf(<<"WEIGHT", "P5336S1">>, [WEIGHT : Weights, P5336S1 : IndCells], MaxRows)
    \cup TablesOf(<<"WEIGHT", "P5336S2">>, [WEIGHT : Weights, P5336S2 : IndCells], MaxRows)
    \cup TablesOf(<<"WEIGHT", "P5336S1", "P5336S2">>,
                  [WEIGHT : Weights, P5336S1 : IndCells, P5336S2 : IndCells], MaxRows)
    \cup TablesOf(<<"WEIGHT", "P5328">>,
                  [WEIGHT : Weights, P5328 : PlacementCells], MaxIdeoRows)
    \cup TablesOf(<<"WEIGHT", "P5323">> \o importance_vars, ImportanceRows, MaxIdeoRows)

CallVars == {"P6933", "P5323"}

MatchValues == {D(1, 0), D(2, 0), D(99, 0)}

(* --------------------------- state machine ---------------------------- *)
Result(op, var, val, n, out) == [op |-> op, var |-> var, val |-> val, n |-> n, out |-> out]

\* load_data: the table is materialised once and never written afterwards
Init ==
    /\ df \in Tables
    /\ res = Result("load_data", "", 0, 0, Zero)

Call_porcentaje_ponderado ==
    /\ \E var \in CallVars, valor_si \in MatchValues :
          res' = Result("porcentaje_ponderado", var, valor_si, 0,
                        porcentaje_ponderado(df, var, valor_si))
    /\ UNCHANGED df

Call_weighted_mean ==
    /\ \E var \in CallVars :
          res' = Result("weighted_mean", var, 0, 0, weighted_mean(df, var))
    /\ UNCHANGED df

Call_plot_weighted_bar ==
    /\ \E var \in CallVars :
          res' = Result("plot_weighted_bar", var, 0, 0,
                        plot_weighted_bar(df, var, global_participacion))
    /\ UNCHANGED df

Call_plot_grouped_reasons ==
    /\ res' = Result("plot_grouped_reasons", "", 0, 0,
                     plot_grouped_reasons(df, group_to_codes))
    /\ UNCHANGED df

\* engineer_ideology on the loaded table, or again on its own result
Call_engineer_ideology ==
    LET again == res.op = "engineer_ideology"
        n     == IF again THEN res.n + 1 ELSE 1
        arg   == IF again THEN res.out ELSE df
    IN /\ n <= MaxApply
       /\ res' = Result("engineer_ideology", "", 0, n, engineer_ideology(arg))
       /\ df' = IF again THEN df ELSE engineer_ideology_arg(df)

\* A sidebar click: the script runs again from the top (cached load,
\* engineer_ideology on the loaded table, then the selected view)
Click ==
    /\ \E view \in nav_items :
          res' = Result("render", view, 0, 0, [raised |-> render(df, view)])
    /\ df' = engineer_ideology_arg(df)

Next ==
    \/ Call_porcentaje_ponderado
    \/ Call_weighted_mean
    \/ Call_plot_weighted_bar
    \/ Call_plot_grouped_reasons
    \/ Call_engineer_ideology
    \/ Click

Spec == Init /\ [][Next]_vars

(* ===================== properties of the aggregation layer ============= *)
\* Sum of WEIGHT over the rows whose index is in I
RECURSIVE WeightOf(_, _)
WeightOf(d, I) ==
    IF I = {} THEN 0
    ELSE LET i == CHOOSE x \in I : TRUE
         IN d.rows[i].WEIGHT + WeightOf(d, I \ {i})

\* Sum of value x WEIGHT over the rows whose index is in I (value of column var)
RECURSIVE ValueWeightOf(_, _, _)
ValueWeightOf(d, var, I) ==
    IF I = {} THEN 0
    ELSE LET i == CHOOSE x \in I : TRUE
         IN (CHOOSE v \in d.rows[i][var] : TRUE) * d.rows[i].WEIGHT
            + ValueWeightOf(d, var, I \ {i})

RowIds(d) == 1..Len(d.rows)

\* The float x is the rational num / den (den > 0)
IsRatio(x, num, den) == x.k = "num" /\ x.n * den = num * x.d

\* spec.md section 8: records (2, P6933=1), (3, P6933=2), (5, P6933=99)
ExampleVotes ==
    [columns |-> <<"WEIGHT", "P6933">>,
     rows    |-> << [WEIGHT |-> 2, P6933 |-> {D(1, 0)}],
                    [WEIGHT |-> 3, P6933 |-> {D(2, 0)}],
                    [WEIGHT |-> 5, P6933 |-> {D(99, 0)}] >>]

\* spec.md section 8: value 99 with weight 1000 and value 3 with weight 1
ExampleLikert ==
    [columns |-> <<"WEIGHT", "P5321S1">>,
     rows    |-> << [WEIGHT |-> 1000, P5321S1 |-> {D(99, 0)}],
                    [WEIGHT |-> 1,    P5321S1 |-> {D(3, 0)}] >>]

\* C1 (as claimed): every group percentage of plot_grouped_reasons is
\* 100 x (weight of the records with AT LEAST ONE member indicator = 1) /
\* (total weight), so a record counts once per group and no percentage
\* exceeds 100.
C1_UnionSemantics ==
    res.op = "plot_grouped_reasons" =>
        \A g \in 1..Len(group_to_codes) :
            LET codes == group_to_codes[g].codes
                any   == {i \in RowIds(df) :
                            \E j \in 1..Len(codes) :
                                HasColumn(df, codes[j]) /\ df.rows[i][codes[j]] = {D(1, 0)}}
                pct   == res.out[g].percent
            IN /\ TotalWeight(df) > 0 => IsRatio(pct, 100 * WeightOf(df, any), TotalWeight(df))
               /\ pct.k = "num" /\ pct.n <= 100 * pct.d

\* C2: for a variable present in the table, porcentaje_ponderado is
\* 100 x (weight of the records whose value equals valor_si) / (weight of all
\* records); records with a missing or different value stay in the denominator.
C2_WeightedPercentage ==
    /\ (res.op = "porcentaje_ponderado" /\ HasColumn(df, res.var) /\ WeightOf(df, RowIds(df)) > 0) =>
          IsRatio(res.out,
                  100 * WeightOf(df, {i \in RowIds(df) : df.rows[i][res.var] = {res.val}}),
                  WeightOf(df, RowIds(df)))
    /\ porcentaje_ponderado(ExampleVotes, "P6933", D(1, 0)) = Float(20, 1)

\* C2 happens: a matching, weighted record next to a weighted record whose value
\* is missing or different
C2_Witness ==
    /\ res.op = "porcentaje_ponderado" /\ HasColumn(df, res.var)
    /\ \E i, j \in RowIds(df) :
          /\ df.rows[i][res.var] = {res.val} /\ df.rows[i].WEIGHT > 0
          /\ df.rows[j][res.var] = {} /\ df.rows[j].WEIGHT > 0
    /\ res.out # Zero

\* C3: for a variable that is not a column of the table, porcentaje_ponderado
\* (any valor_si) and weighted_mean return exactly 0.0 and raise nothing.
C3_AbsentVariableIsZero ==
    (res.op \in {"porcentaje_ponderado", "weighted_mean"} /\ ~HasColumn(df, res.var)) =>
        res.out = Zero

\* C3 happens: weighted_mean was called for an absent column of a weighted table
C3_Witness ==
    /\ res.op = "weighted_mean" /\ ~HasColumn(df, res.var)
    /\ HasColumn(df, "P6933") /\ TotalWeight(df) > 0

\* C4 (as claimed): on a table whose total weight is 0 every aggregation
\* function yields 0.0 for every value it computes; none raises, none yields NaN.
C4_ZeroWeightIsZero ==
    TotalWeight(df) = 0 =>
        /\ res.op \in {"porcentaje_ponderado", "weighted_mean"} => res.out = Zero
        /\ res.op = "plot_grouped_reasons" =>
              \A g \in 1..Len(res.out) : res.out[g].percent = Zero
        /\ (res.op = "plot_weighted_bar" /\ HasColumn(df, res.var)) =>
              /\ res.out.raised = ""
              /\ \A j \in 1..Len(res.out.perc_df) : res.out.perc_df[j].percent = Zero

\* C5: weighted_mean is (sum of value x weight) / (sum of weight), both over the
\* records whose value lies in [1, 5] only; missing and out-of-range values
\* touch neither sum, and the result is 0.0 when the restricted weight is 0.
C5_DomainRestrictedMean ==
    /\ (res.op = "weighted_mean" /\ HasColumn(df, res.var)) =>
          LET valid == {i \in RowIds(df) :
                          \E v \in df.rows[i][res.var] : D(1, 0) <= v /\ v <= D(5, 0)}
              w     == WeightOf(df, valid)
          IN IF w = 0 THEN res.out = Zero
             ELSE IsRatio(res.out, ValueWeightOf(df, res.var, valid), D(1, 0) * w)
    /\ weighted_mean(ExampleLikert, "P5321S1") = Float(3, 1)

\* C5 happens: an out-of-range code with the larger weight next to a valid value
C5_Witness ==
    /\ res.op = "weighted_mean" /\ HasColumn(df, res.var)
    /\ \E i, j \in RowIds(df) :
          /\ df.rows[i][res.var] = {D(99, 0)} /\ df.rows[i].WEIGHT = MaxWeight
          /\ df.rows[j][res.var] = {D(2, 0)} /\ df.rows[j].WEIGHT = 1
    /\ res.out = Float(2, 1)

CodesOf(d, var) == UNION {d.rows[i][var] : i \in RowIds(d)}

Answered(d, var) == {i \in RowIds(d) : d.rows[i][var] # {}}

\* Position of code c in the ascending order of the codes
RankOf(d, var, c) == 1 + Cardinality({x \in CodesOf(d, var) : x < c})

\* C7 (as claimed): plot_weighted_bar reports, for every code present in the
\* variable of a table with positive total weight, 100 x (weight of the records
\* with that code) / (weight of ALL records of the table).  Checked where
\* the records with a non-missing value carry weight, so that the only
\* question is which records the denominator counts.
C7_WholeTableDenominator ==
    (res.op = "plot_weighted_bar" /\ HasColumn(df, res.var)
        /\ WeightOf(df, Answered(df, res.var)) > 0) =>
        /\ Len(res.out.perc_df) = Cardinality(CodesOf(df, res.var))
        /\ \A c \in CodesOf(df, res.var) :
              IsRatio(res.out.perc_df[RankOf(df, res.var, c)].percent,
                      100 * WeightOf(df, {i \in RowIds(df) : df.rows[i][res.var] = {c}}),
                      TotalWeight(df))

\* C7 (amended): the denominator is the weight of the records whose value is
\* not missing: for every code present, when those records have positive
\* weight, the percentage is 100 x (weight of the records with that code) /
\* (weight of the records with a non-missing value); codes without a label
\* count in the denominator, records with a missing value do not.
C7_AnsweredDenominator ==
    /\ (res.op = "plot_weighted_bar" /\ HasColumn(df, res.var)) =>
          /\ res.out.raised = ""
          /\ Len(res.out.perc_df) = Cardinality(CodesOf(df, res.var))
          /\ WeightOf(df, Answered(df, res.var)) > 0 =>
                \A c \in CodesOf(df, res.var) :
                    IsRatio(res.out.perc_df[RankOf(df, res.var, c)].percent,
                            100 * WeightOf(df, {i \in RowIds(df) : df.rows[i][res.var] = {c}}),
                            WeightOf(df, Answered(df, res.var)))
    /\ plot_weighted_bar(ExampleVotes, "P6933", global_participacion).perc_df =
          << [label |-> {"Si voto"}, percent |-> Float(20, 1)],
             [label |-> {"No voto"}, percent |-> Float(30, 1)],
             [label |-> {"NS/NR"},   percent |-> Float(50, 1)] >>

\* C7 happens: a weighted record with a missing value next to a weighted record
\* with an unlabeled code
C7_Witness ==
    /\ res.op = "plot_weighted_bar" /\ HasColumn(df, res.var)
    /\ \E i, j \in RowIds(df) :
          /\ df.rows[i][res.var] = {} /\ df.rows[i].WEIGHT > 0
          /\ df.rows[j][res.var] = {D(5, 0)} /\ df.rows[j].WEIGHT > 0
    /\ res.out.perc_df = <<[label |-> {}, percent |-> Float(100, 1)]>>

\* Rows of the engineer_ideology result whose placement P5328 is the cell c
GroupIs(c, g) ==
    \A i \in RowIds(df) : df.rows[i]["P5328"] = c => res.out.rows[i]["ideology_group"] = g

Derived == res.op = "engineer_ideology" /\ HasColumn(df, "P5328")

\* C8 (as claimed): placement 3.5 -> Centro, 3.5001 -> Centro, 6.5 -> Centro,
\* 7 -> Derecha, 11 or missing -> no group.
C8_GroupExamples ==
    Derived =>
        /\ GroupIs({D(3, 5000)}, {"Centro"})
        /\ GroupIs({D(3, 5001)}, {"Centro"})
        /\ GroupIs({D(6, 5000)}, {"Centro"})
        /\ GroupIs({D(7, 0)}, {"Derecha"})
        /\ GroupIs({D(11, 0)}, {})
        /\ GroupIs({}, {})

\* C8 (amended): placement 3.5 -> Izquierda; 3.5001 -> Centro, 6.5 -> Centro,
\* 7 -> Derecha, 11 or missing -> no group.
C8_GroupExamplesAmended ==
    Derived =>
        /\ GroupIs({D(3, 5000)}, {"Izquierda"})
        /\ GroupIs({D(3, 5001)}, {"Centro"})
        /\ GroupIs({D(6, 5000)}, {"Centro"})
        /\ GroupIs({D(7, 0)}, {"Derecha"})
        /\ GroupIs({D(11, 0)}, {})
        /\ GroupIs({}, {})

\* C8 happens: a record placed exactly on the edge 3.5 has been grouped
C8_Witness ==
    /\ Derived
    /\ \E i \in RowIds(df) :
          df.rows[i]["P5328"] = {D(3, 5000)} /\ res.out.rows[i]["ideology_group"] # {}

\* C9 (as claimed): a placement that is missing or outside [1, 10] gets no
\* ideology group.
C9_OutsideDomainUngrouped ==
    Derived =>
        \A i \in RowIds(df) :
            ~(\E v \in df.rows[i]["P5328"] : D(1, 0) <= v /\ v <= D(10, 0)) =>
                res.out.rows[i]["ideology_group"] = {}

\* C10: engineer_ideology applied again to its own result gives the table the
\* first application gave (columns, order and values); both derived columns
\* come from P5328; without P5328 the result is the input table.
C10_Idempotent ==
    res.op = "engineer_ideology" =>
        /\ res.out = engineer_ideology(df)
        /\ HasColumn(df, "P5328") =>
              /\ res.out.columns = df.columns \o <<"ideology_group", "ideology_score">>
              /\ \A i \in RowIds(df) :
                    /\ res.out.rows[i]["ideology_group"] = cut(Col(df, "P5328"))[i]
                    /\ res.out.rows[i]["ideology_score"] \in {{}, df.rows[i]["P5328"]}
                    /\ \A c \in ColumnSet(df) : res.out.rows[i][c] = df.rows[i][c]
        /\ ~HasColumn(df, "P5328") => res.out = df

\* C10 happens: the second application has run on a table whose placement is
\* grouped but has no score
C10_Witness ==
    /\ Derived /\ res.n = 2
    /\ \E i \in RowIds(df) :
          res.out.rows[i]["ideology_group"] # {} /\ res.out.rows[i]["ideology_score"] = {}

\* Sum, over the member codes at the positions J, of the weight of the records
\* whose indicator for that code is 1
RECURSIVE YesWeightOf(_, _, _)
YesWeightOf(d, codes, J) ==
    IF J = {} THEN 0
    ELSE LET j == CHOOSE x \in J : TRUE
         IN WeightOf(d, {i \in RowIds(d) : d.rows[i][codes[j]] = {D(1, 0)}})
            + YesWeightOf(d, codes, J \ {j})

\* Positions of the member codes of group g that are columns of the table
PresentCodes(d, g) ==
    {j \in 1..Len(group_to_codes[g].codes) : HasColumn(d, group_to_codes[g].codes[j])}

\* C11: plot_grouped_reasons skips member variables that are not columns of
\* the table: they raise nothing and add nothing to the group's percentage,
\* which is made of the present members alone; a group without any present
\* member gets 0; every group of the map is in the output, in the map's order.
C11_AbsentMembersSkipped ==
    res.op = "plot_grouped_reasons" =>
        /\ Len(res.out) = Len(group_to_codes)
        /\ \A g \in 1..Len(group_to_codes) :
              /\ res.out[g].Categoria = group_to_codes[g].cat
              /\ res.out[g].percent.k = "num"
              /\ PresentCodes(df, g) = {} => res.out[g].percent = Zero
              /\ TotalWeight(df) > 0 =>
                    IsRatio(res.out[g].percent,
                            100 * YesWeightOf(df, group_to_codes[g].codes, PresentCodes(df, g)),
                            TotalWeight(df))

\* C11 happens: one member of a group is a column and holds a weighted yes, the
\* other member is absent, and so are all members of the other groups
C11_Witness ==
    /\ res.op = "plot_grouped_reasons"
    /\ HasColumn(df, "P5336S1") /\ ~HasColumn(df, "P5336S2")
    /\ \E i \in RowIds(df) : df.rows[i]["P5336S1"] = {D(1, 0)} /\ df.rows[i].WEIGHT > 0
    /\ res.out[3].percent # Zero
    /\ res.out[4].percent = Zero

\* C12: no step (view render, aggregation call, engineer_ideology) changes the
\* loaded table: it keeps its columns and values, and the derived columns are
\* only ever in the table engineer_ideology returns.
C12_LoadedTableUnchanged ==
    [][/\ df' = df
       /\ ~HasColumn(df', "ideology_group")
       /\ ~HasColumn(df', "ideology_score")]_vars

\* C12 happens: engineer_ideology has returned a table with the derived
\* columns, views have been rendered, and the loaded table has neither column
C12_Witness ==
    /\ res.op = "render" /\ res.var = "Ubicacion ideologica" /\ res.out.raised = ""
    /\ Len(df.rows) > 0
    /\ HasColumn(engineer_ideology(df), "ideology_group")
    /\ ~HasColumn(df, "ideology_group")

\* C13 (as claimed): whichever columns a loaded table lacks, rendering any
\* view of the sidebar completes without an error.
C13_AbsenceTolerated ==
    (res.op = "render" /\ TotalWeight(df) > 0) => res.out.raised = ""

BarCall == res.op = "plot_weighted_bar" /\ HasColumn(df, res.var)

C15_RightClosedBins ==
    Derived =>
        \A i \in RowIds(df) : \A v \in df.rows[i]["P5328"] :
            LET g == res.out.rows[i]["ideology_group"]
            IN /\ (0 < v /\ v <= D(3, 5000)) => g = {"Izquierda"}
               /\ (D(3, 5000) < v /\ v <= D(6, 5000)) => g = {"Centro"}
               /\ (D(6, 5000) < v /\ v <= D(10, 0)) => g = {"Derecha"}
               /\ (v <= 0 \/ v > D(10, 0)) => g = {}

\* C15 happens: a record placed on the top edge 10 has been grouped
C15_Witness ==
    /\ Derived
    /\ \E i \in RowIds(df) :
          df.rows[i]["P5328"] = {D(10, 0)} /\ res.out.rows[i]["ideology_group"] = {"Derecha"}

====
